---- MODULE Spec2Model ----
(***************************************************************************)
(* Model of llpc/lower/llpcSpirvLowerUtil.cpp: the entry-point locator,    *)
(* the shader-stage tag accessors and the zero-index padding routine.      *)
(*                                                                         *)
(* A module is its function list; a function is a record of what the code  *)
(* reads (empty(), getLinkage()) and writes (its metadata attachments).    *)
(* A function is identified by its position in the list (1..Len), and the  *)
(* null pointer is position 0.                                             *)
(***************************************************************************)
EXTENDS Integers, Sequences, FiniteSets, TLC

VARIABLES
    assertsEnabled,  \* the build: TRUE when NDEBUG is not defined
    functions,       \* the module's function list, in stored order
    call,            \* the call made last and how it ended
    prev,            \* the call made before it
    packType,        \* appendZeroIndexToMatchTypes: argument packType
    typeToMatch,     \* appendZeroIndexToMatchTypes: argument typeToMatch
    entryOperands,   \* indexOperands as the caller passed it
    indexOperands,   \* the caller's index list
    unpackType       \* the cursor of the unpacking loop

appendVars == <<packType, typeToMatch, entryOperands, indexOperands, unpackType>>
vars == <<assertsEnabled, functions, call, prev, packType, typeToMatch,
          entryOperands, indexOperands, unpackType>>

(***************************************************************************)
(* Bounds.                                                                 *)
(***************************************************************************)
MaxFuncs == 3
MaxDepth == 2
MaxPrior == 2

----------------------------------------------------------------------------
(***************************************************************************)
(* Shader stages and execution models (llpcUtil, SPIRVInternal).           *)
(***************************************************************************)
ShaderStageInvalid == "ShaderStageInvalid"

ValidStages == {"ShaderStageVertex", "ShaderStageFragment", "ShaderStageCompute"}

\* spv::ExecutionModel of a stage: Vertex = 0, Fragment = 4, GLCompute = 5.
convertToExecModel(shaderStage) ==
    CASE shaderStage = "ShaderStageVertex"   -> 0
      [] shaderStage = "ShaderStageFragment" -> 4
      [] shaderStage = "ShaderStageCompute"  -> 5

convertToShaderStage(execModel) ==
    CASE execModel = 0 -> "ShaderStageVertex"
      [] execModel = 4 -> "ShaderStageFragment"
      [] execModel = 5 -> "ShaderStageCompute"
      [] OTHER         -> ShaderStageInvalid

----------------------------------------------------------------------------
(***************************************************************************)
(* Metadata: a function's attachments are a list of (kind, node) pairs; a  *)
(* node is the tuple of its operands, and nodes are uniqued by the         *)
(* context, so a node is its value.                                        *)
(***************************************************************************)
ExecutionModel == "ExecutionModel"   \* gSPIRVMD::ExecutionModel
OtherKind      == "spirv.Other"      \* any other metadata kind

\* ConstantInt::get(Type::getInt32Ty(context), v), wrapped as metadata; every
\* execution model is below 2^31, so the 32-bit constant holds v itself and
\* getZExtValue gives it back
ConstantInt32(v) == [type |-> "i32", value |-> v]

\* MDNode::get(context, {ConstantAsMetadata::get(ConstantInt::get(i32, execModel))})
ExecModelNode(execModel) == << ConstantInt32(execModel) >>

OtherNode == << [type |-> "mdstring", value |-> 0] >>

RECURSIVE EraseKind(_, _)
EraseKind(md, kind) ==
    IF md = << >> THEN << >>
    ELSE IF Head(md).kind = kind THEN EraseKind(Tail(md), kind)
         ELSE << Head(md) >> \o EraseKind(Tail(md), kind)

\* Function::addMetadata: one more attachment, whatever is attached already
AddMetadata(md, kind, node) == Append(md, [kind |-> kind, node |-> node])

\* variant: the new attachment is added and the old ones are kept
SetMetadata_noErase(md, kind, node) == AddMetadata(md, kind, node)

\* variant: an attachment of the kind already present is kept as it is
SetMetadata_keepOld(md, kind, node) ==
    IF \E i \in 1..Len(md) : md[i].kind = kind THEN md ELSE AddMetadata(md, kind, node)

\* Function::setMetadata(kind, node): the attachments of that kind are
\* replaced by the one given
SetMetadata(md, kind, node) == AddMetadata(EraseKind(md, kind), kind, node)

\* Function::getMetadata(kind): the first attachment of that kind, or null
NullNode == << >>

\* variant: the first attachment, whatever its kind
GetMetadata_anyKind(md, kind) == IF md = << >> THEN NullNode ELSE Head(md).node

RECURSIVE GetMetadata(_, _)
GetMetadata(md, kind) ==
    IF md = << >> THEN NullNode
    ELSE IF Head(md).kind = kind THEN Head(md).node
         ELSE GetMetadata(Tail(md), kind)

----------------------------------------------------------------------------
(***************************************************************************)
(* getEntryPoint                                                           *)
(***************************************************************************)
ExternalLinkage == "ExternalLinkage"
InternalLinkage == "InternalLinkage"

\* variant: the body is not looked at
IsEntryCandidate_anyBody(func) == func.linkage = ExternalLinkage

\* the condition of the loop body's if
IsEntryCandidate(func) == func.hasBody /\ func.linkage = ExternalLinkage

\* the loop: the position of the first function that passes, 0 (nullptr) if none
RECURSIVE FindEntryFrom(_, _)
FindEntryFrom(fs, i) ==
    IF i > Len(fs) THEN 0
    ELSE IF IsEntryCandidate(fs[i]) THEN i
         ELSE FindEntryFrom(fs, i + 1)

\* variant: the loop without its break, which keeps the last match
RECURSIVE FindEntryBackFrom(_, _)
FindEntryBackFrom(fs, i) ==
    IF i < 1 THEN 0
    ELSE IF IsEntryCandidate(fs[i]) THEN i
         ELSE FindEntryBackFrom(fs, i - 1)

FindEntry_noBreak(fs) == FindEntryBackFrom(fs, Len(fs))

FindEntry(fs) == FindEntryFrom(fs, 1)

\* variant: the assertion compiled out of every build
getEntryPoint_noAssert(fs, asserts) == [status |-> "returned", func |-> FindEntry(fs)]

\* getEntryPoint(module): how the call ends and what it returns.
\* assert(entryPoint) aborts only in a build with assertions.
getEntryPoint(fs, asserts) ==
    LET entryPoint == FindEntry(fs)
    IN  IF entryPoint = 0 /\ asserts
        THEN [status |-> "aborted", func |-> 0]
        ELSE [status |-> "returned", func |-> entryPoint]

----------------------------------------------------------------------------
(***************************************************************************)
(* getShaderStageFromModule and setShaderStageToModule.  Each is the set   *)
(* of ways the call can end: one way where the code is defined, every way  *)
(* the build can produce where it dereferences the null entry point.       *)
(***************************************************************************)
Stages == ValidStages \cup {ShaderStageInvalid}

NoStage == "-"

\* the record of a call: the operation, its stage argument, how it ended,
\* whether its behaviour was undefined, and what it returned
NoCall == [op |-> "none", arg |-> NoStage, status |-> "returned", ub |-> FALSE,
           func |-> 0, ret |-> NoStage]

\* mdconst::dyn_extract<ConstantInt>(operand): null unless a constant integer
IsConstantInt(operand) == operand.type = "i32"

getShaderStageFromModule(fs, asserts) ==
    LET ep == getEntryPoint(fs, asserts)
        \* what a build may do with a null dereference
        Undefined == {[status |-> "crashed", ret |-> NoStage, ub |-> TRUE]}
                         \cup {[status |-> "returned", ret |-> s, ub |-> TRUE] : s \in Stages}
    IN  IF ep.status = "aborted"
        THEN {[status |-> "aborted", ret |-> NoStage, ub |-> FALSE]}
        ELSE IF ep.func = 0
        THEN Undefined   \* func->getMetadata on a null pointer
        ELSE LET execModelNode == GetMetadata(fs[ep.func].md, ExecutionModel)
             IN  IF execModelNode = NullNode
                 THEN {[status |-> "returned", ret |-> ShaderStageInvalid, ub |-> FALSE]}
                 ELSE IF ~IsConstantInt(execModelNode[1])
                 THEN Undefined   \* getZExtValue on a null pointer
                 ELSE {[status |-> "returned", ub |-> FALSE,
                        ret |-> convertToShaderStage(execModelNode[1].value)]}

\* the function list with the metadata of function i replaced
WithMetadata(fs, i, md) == [fs EXCEPT ![i].md = md]

setShaderStageToModule(fs, asserts, shaderStage) ==
    LET ep == getEntryPoint(fs, asserts)
        execModel == convertToExecModel(shaderStage)
        execModelMetaNode == ExecModelNode(execModel)
    IN  IF ep.status = "aborted"
        THEN {[status |-> "aborted", fs |-> fs, ub |-> FALSE]}
        ELSE IF ep.func = 0
        THEN \* func->setMetadata on a null pointer: a fault, or a write
             \* that lands nowhere or on some function's attachments
             {[status |-> "crashed", fs |-> fs, ub |-> TRUE],
              [status |-> "returned", fs |-> fs, ub |-> TRUE]}
                 \cup {[status |-> "returned", ub |-> TRUE,
                        fs |-> WithMetadata(fs, i,
                                 SetMetadata(fs[i].md, ExecutionModel, execModelMetaNode))]
                       : i \in 1..Len(fs)}
        ELSE {[status |-> "returned", ub |-> FALSE,
               fs |-> WithMetadata(fs, ep.func,
                        SetMetadata(fs[ep.func].md, ExecutionModel, execModelMetaNode))]}

----------------------------------------------------------------------------
(***************************************************************************)
(* Types.  LLVM types are uniqued, so pointer equality of two types is     *)
(* equality of their structure.  A type is its kind, its contained types   *)
(* and its element count.                                                  *)
(***************************************************************************)
ScalarTy(kind)   == [kind |-> kind, elems |-> << >>, num |-> 0]
StructTy(elems)  == [kind |-> "struct", elems |-> elems, num |-> Len(elems)]
ArrayTy(elem, n) == [kind |-> "array", elems |-> << elem >>, num |-> n]
VectorTy(elem, n) == [kind |-> "vector", elems |-> << elem >>, num |-> n]

VoidTy  == ScalarTy("void")
Int32Ty == ScalarTy("i32")
FloatTy == ScalarTy("float")
GarbageTy == ScalarTy("garbage")   \* what a misread type object yields

isStructTy(ty) == ty.kind = "struct"
isArrayTy(ty)  == ty.kind = "array"
isVectorTy(ty) == ty.kind = "vector"

\* variant: the last member instead of member n
getStructElementType_last(ty, n) == ty.elems[Len(ty.elems)]

getStructElementType(ty, n) == ty.elems[n + 1]
getArrayElementType(ty)     == ty.elems[1]
getElementType(ty)          == ty.elems[1]

Scalars == {Int32Ty, FloatTy}

\* the types one level above those of S: arrays of 4, vectors of 4 scalars,
\* structs whose first member is of S and whose second is a float
Wrap(S) ==
    {ArrayTy(t, 4) : t \in S}
        \cup {VectorTy(t, 4) : t \in S \cap Scalars}
        \cup {StructTy(<< t, FloatTy >>) : t \in S}

RECURSIVE TypesOfDepth(_)
TypesOfDepth(d) ==
    IF d = 0 THEN Scalars ELSE Scalars \cup Wrap(TypesOfDepth(d - 1))

Types == TypesOfDepth(MaxDepth)

----------------------------------------------------------------------------
(***************************************************************************)
(* appendZeroIndexToMatchTypes, one loop iteration a step.                 *)
(***************************************************************************)
\* builder->getInt32(0)
getInt32(v) == ConstantInt32(v)

\* values a caller may have put in the list already
PriorValues == {getInt32(0), getInt32(3)}

OperandLists == UNION {[1..n -> PriorValues] : n \in 0..MaxPrior}

InAppend ==
    /\ call.op = "appendZeroIndexToMatchTypes"
    /\ call.status = "running"
    /\ ~call.ub

AppendCall(status, ub) ==
    [op |-> "appendZeroIndexToMatchTypes", arg |-> NoStage, status |-> status,
     ub |-> ub, func |-> 0, ret |-> NoStage]

\* entry: unpackType = packType, zero = builder->getInt32(0)
EnterAppend ==
    /\ call = NoCall
    /\ \E target \in Types, source \in Types :
          /\ typeToMatch' = target
          /\ packType' = source
          /\ unpackType' = source
    /\ entryOperands' = indexOperands
    /\ call' = AppendCall("running", FALSE)
    /\ prev' = call
    /\ UNCHANGED <<assertsEnabled, functions, indexOperands>>

\* while (unpackType != typeToMatch) fails: the call returns
LoopExit ==
    /\ InAppend
    /\ unpackType = typeToMatch
    /\ call' = AppendCall("returned", FALSE)
    /\ UNCHANGED <<assertsEnabled, functions, prev, appendVars>>

\* variant: the zero is put in front of the list
PushZero_front == indexOperands' = << getInt32(0) >> \o indexOperands

\* what every iteration does first
PushZero == indexOperands' = Append(indexOperands, getInt32(0))

LoopFrame == UNCHANGED <<assertsEnabled, functions, call, prev, packType, typeToMatch,
                         entryOperands>>

UnpackStruct ==
    /\ InAppend
    /\ unpackType # typeToMatch
    /\ PushZero
    /\ isStructTy(unpackType)
    /\ unpackType' = getStructElementType(unpackType, 0)
    /\ LoopFrame

UnpackArray ==
    /\ InAppend
    /\ unpackType # typeToMatch
    /\ PushZero
    /\ ~isStructTy(unpackType) /\ isArrayTy(unpackType)
    /\ unpackType' = getArrayElementType(unpackType)
    /\ LoopFrame

UnpackVector ==
    /\ InAppend
    /\ unpackType # typeToMatch
    /\ PushZero
    /\ ~isStructTy(unpackType) /\ ~isArrayTy(unpackType) /\ isVectorTy(unpackType)
    /\ unpackType' = getElementType(unpackType)
    /\ LoopFrame

NoUnpackStep(ty) == ~isStructTy(ty) /\ ~isArrayTy(ty) /\ ~isVectorTy(ty)

\* llvm_unreachable("Should never be called!"): with assertions the message
\* is printed and the process aborts; without them reaching it is undefined
\* behaviour: the process may fault, the loop may go on with whatever the
\* vector branch reads from a type that is no vector, or the call may return
\* variant: the branch falls out of the loop and the call returns
llvm_unreachable_return(asserts) ==
    {[status |-> "returned", ub |-> FALSE, cursor |-> unpackType]}

llvm_unreachable(asserts) ==
    IF asserts
    THEN {[status |-> "aborted", ub |-> FALSE, cursor |-> unpackType]}
    ELSE {[status |-> "crashed", ub |-> TRUE, cursor |-> unpackType],
          [status |-> "running", ub |-> TRUE, cursor |-> GarbageTy],
          [status |-> "returned", ub |-> TRUE, cursor |-> unpackType]}

Unreachable ==
    /\ InAppend
    /\ unpackType # typeToMatch
    /\ PushZero
    /\ NoUnpackStep(unpackType)
    /\ \E r \in llvm_unreachable(assertsEnabled) :
          /\ call' = AppendCall(r.status, r.ub)
          /\ unpackType' = r.cursor
    /\ UNCHANGED <<assertsEnabled, functions, prev, packType, typeToMatch, entryOperands>>

InitAppend ==
    /\ assertsEnabled \in BOOLEAN
    /\ functions = << >>
    /\ call = NoCall
    /\ prev = NoCall
    /\ packType = VoidTy /\ typeToMatch = VoidTy /\ unpackType = VoidTy
    /\ indexOperands \in OperandLists
    /\ entryOperands = indexOperands

NextAppend ==
    \/ EnterAppend
    \/ LoopExit
    \/ UnpackStruct
    \/ UnpackArray
    \/ UnpackVector
    \/ Unreachable

SpecAppend == InitAppend /\ [][NextAppend]_vars

----------------------------------------------------------------------------
(***************************************************************************)
(* The module as the lowering passes find it.                              *)
(***************************************************************************)
\* metadata a function carries before the utilities run: none, or some
\* other attachment
PlainMetadata == {<< >>, << [kind |-> OtherKind, node |-> OtherNode] >>}

\* the execution model metadata that is added by the SPIR-V reader, which
\* tags the entry points it translates
ReaderMetadata ==
    {<< [kind |-> ExecutionModel, node |-> ExecModelNode(convertToExecModel(s))],
        [kind |-> OtherKind, node |-> OtherNode] >> : s \in ValidStages}

FunctionValues ==
    {f \in [hasBody : BOOLEAN, linkage : {ExternalLinkage, InternalLinkage},
            md : PlainMetadata \cup ReaderMetadata] :
        f.md \in ReaderMetadata => f.hasBody /\ f.linkage = ExternalLinkage}

FunctionLists == UNION {[1..n -> FunctionValues] : n \in 0..MaxFuncs}

\* the process runs until a call aborts or faults; nothing is said of what
\* follows a call whose behaviour was undefined
Running == call.status = "returned" /\ ~call.ub

AppendIdle ==
    /\ packType = VoidTy /\ typeToMatch = VoidTy /\ unpackType = VoidTy
    /\ entryOperands = << >> /\ indexOperands = << >>

Init ==
    /\ assertsEnabled \in BOOLEAN
    /\ functions \in FunctionLists
    /\ call = NoCall
    /\ prev = NoCall
    /\ AppendIdle

CallGetEntryPoint ==
    /\ Running
    /\ LET r == getEntryPoint(functions, assertsEnabled)
       IN  call' = [op |-> "getEntryPoint", arg |-> NoStage, status |-> r.status,
                    ub |-> FALSE, func |-> r.func, ret |-> NoStage]
    /\ prev' = call
    /\ UNCHANGED <<assertsEnabled, functions, appendVars>>

CallGetShaderStageFromModule ==
    /\ Running
    /\ \E r \in getShaderStageFromModule(functions, assertsEnabled) :
          call' = [op |-> "getShaderStageFromModule", arg |-> NoStage,
                   status |-> r.status, ub |-> r.ub, func |-> 0, ret |-> r.ret]
    /\ prev' = call
    /\ UNCHANGED <<assertsEnabled, functions, appendVars>>

CallSetShaderStageToModule ==
    /\ Running
    /\ \E shaderStage \in ValidStages :
       \E r \in setShaderStageToModule(functions, assertsEnabled, shaderStage) :
          /\ call' = [op |-> "setShaderStageToModule", arg |-> shaderStage,
                      status |-> r.status, ub |-> r.ub, func |-> 0, ret |-> NoStage]
          /\ functions' = r.fs
    /\ prev' = call
    /\ UNCHANGED <<assertsEnabled, appendVars>>

Next ==
    \/ CallGetEntryPoint
    \/ CallGetShaderStageFromModule
    \/ CallSetShaderStageToModule

Spec == Init /\ [][Next]_vars

----------------------------------------------------------------------------
(***************************************************************************)
(* Properties of the entry-point locator and the stage-tag accessors,      *)
(* checked under Spec.  What the claims call a qualifying function, the    *)
(* entry function and the records under a key are restated here from      *)
(* their wording.                                                          *)
(***************************************************************************)
Qualifies(f) == f.hasBody = TRUE /\ f.linkage = "ExternalLinkage"

Qualifying(fs) == {i \in 1..Len(fs) : Qualifies(fs[i])}

HasEntry(fs) == Qualifying(fs) # {}

\* the qualifying function with the lowest position
FirstQualifying(fs) == CHOOSE i \in Qualifying(fs) : \A j \in Qualifying(fs) : i <= j

\* the attachments of a function under a key, and under every other key
RecordsUnder(md, key) == SelectSeq(md, LAMBDA a : a.kind = key)
RecordsElsewhere(md, key) == SelectSeq(md, LAMBDA a : a.kind # key)

Returned(c) == c.status = "returned" /\ ~c.ub

IsGetEntryPoint(c) == c.op = "getEntryPoint"
IsGetStage(c) == c.op = "getShaderStageFromModule"
IsSetStage(c) == c.op = "setShaderStageToModule"

\* a step that makes a call
Calls == prev' = call /\ call'.op # "none"

\* C2: in a unit with exactly one function that has a body and external
\* linkage, getEntryPoint returns that function, whatever other functions
\* stand before or after it.
C2_UniqueEntryReturned ==
    (IsGetEntryPoint(call) /\ Cardinality(Qualifying(functions)) = 1)
        => /\ Returned(call)
           /\ call.func \in Qualifying(functions)

\* a helper with a body before the entry function and a declaration after it
C2_Witness ==
    /\ IsGetEntryPoint(call) /\ Returned(call)
    /\ Len(functions) = 3
    /\ Qualifying(functions) = {2}
    /\ functions[1].hasBody /\ functions[1].linkage = InternalLinkage
    /\ ~functions[3].hasBody /\ functions[3].linkage = ExternalLinkage
    /\ call.func = 2

\* C9: getEntryPoint returns the qualifying function with the lowest
\* position, and a second call on the same function list returns the same
\* position.
C9_FirstQualifyingReturned ==
    /\ (IsGetEntryPoint(call) /\ HasEntry(functions))
          => Returned(call) /\ call.func = FirstQualifying(functions)
    /\ (IsGetEntryPoint(call) /\ IsGetEntryPoint(prev))
          => call.func = prev.func /\ call.status = prev.status

\* two functions qualify and the call was made twice
C9_Witness ==
    /\ IsGetEntryPoint(call) /\ IsGetEntryPoint(prev) /\ Returned(call)
    /\ Cardinality(Qualifying(functions)) >= 2
    /\ call.func = 2
    /\ 3 \in Qualifying(functions)

\* C3: getShaderStageFromModule on a unit whose entry function has no
\* record under the ExecutionModel key returns the invalid stage, does not
\* fail and leaves the unit as it was.
C3_UntaggedIsInvalid ==
    [][(Calls /\ IsGetStage(call') /\ HasEntry(functions)
          /\ RecordsUnder(functions[FirstQualifying(functions)].md, "ExecutionModel") = << >>)
        => /\ Returned(call')
           /\ call'.ret = "ShaderStageInvalid"
           /\ functions' = functions]_vars

\* the entry function carries metadata, none of it under the key
C3_Witness ==
    /\ IsGetStage(call) /\ Returned(call)
    /\ HasEntry(functions)
    /\ functions[FirstQualifying(functions)].md # << >>
    /\ RecordsUnder(functions[FirstQualifying(functions)].md, "ExecutionModel") = << >>
    /\ call.ret = "ShaderStageInvalid"

\* C1: on a unit with an entry function, getShaderStageFromModule called
\* after setShaderStageToModule(unit, s), s a valid stage, returns s.
C1_RoundTrip ==
    (IsSetStage(prev) /\ Returned(prev) /\ IsGetStage(call) /\ HasEntry(functions))
        => /\ Returned(call)
           /\ call.ret = prev.arg
           /\ call.ret # "ShaderStageInvalid"

\* the stage set and read back is not the one the entry function carried
C1_Witness ==
    /\ IsSetStage(prev) /\ Returned(prev) /\ prev.arg = "ShaderStageFragment"
    /\ IsGetStage(call) /\ Returned(call) /\ call.ret = "ShaderStageFragment"
    /\ Len(functions) >= 2
    /\ FirstQualifying(functions) = 2

\* C5: a second setShaderStageToModule(unit, s) right after a first one
\* returns and leaves the metadata of the unit as the first call left it.
C5_SetIdempotent ==
    [][(Calls /\ IsSetStage(call) /\ Returned(call) /\ IsSetStage(call')
          /\ call'.arg = call.arg)
        => Returned(call') /\ functions' = functions]_vars

C5_Witness ==
    /\ IsSetStage(prev) /\ Returned(prev)
    /\ IsSetStage(call) /\ Returned(call)
    /\ call.arg = prev.arg
    /\ HasEntry(functions)
    /\ Len(functions[FirstQualifying(functions)].md) = 2

\* C10: after a setShaderStageToModule(unit, s) the entry function carries
\* exactly one record under the ExecutionModel key, of one integer operand
\* that encodes s, and getShaderStageFromModule returns s; the call changes
\* no other function and no record under another key.  Over a sequence of
\* calls this leaves the last stage set and everything else as before.
C10_StateAfterSet ==
    (IsSetStage(call) /\ Returned(call))
        => LET e == FirstQualifying(functions)
               recs == RecordsUnder(functions[e].md, "ExecutionModel")
           IN  /\ HasEntry(functions)
               /\ Len(recs) = 1
               /\ Len(recs[1].node) = 1
               /\ recs[1].node[1] = [type |-> "i32", value |-> convertToExecModel(call.arg)]
               /\ getShaderStageFromModule(functions, assertsEnabled)
                      = {[status |-> "returned", ub |-> FALSE, ret |-> call.arg]}

C10_SetFrame ==
    (Calls /\ IsSetStage(call') /\ Returned(call'))
        => LET e == FirstQualifying(functions)
           IN  /\ Len(functions') = Len(functions)
               /\ \A i \in 1..Len(functions) :
                     /\ functions'[i].hasBody = functions[i].hasBody
                     /\ functions'[i].linkage = functions[i].linkage
                     /\ i # e => functions'[i] = functions[i]
               /\ RecordsElsewhere(functions'[e].md, "ExecutionModel")
                      = RecordsElsewhere(functions[e].md, "ExecutionModel")

C10_LastWriteWins == [](C10_StateAfterSet) /\ [][C10_SetFrame]_vars

\* two different stages set in turn on a unit with a second tagged function
C10_Witness ==
    /\ IsSetStage(prev) /\ Returned(prev)
    /\ IsSetStage(call) /\ Returned(call)
    /\ call.arg # prev.arg
    /\ Cardinality(Qualifying(functions)) = 2
    /\ \A i \in Qualifying(functions) : Len(functions[i].md) = 2

\* C6 as stated: with no qualifying function every one of the three calls
\* ends in the assertion failure.
C6_AlwaysFatal ==
    (~HasEntry(functions) /\ call.op # "none") => call.status = "aborted"

\* C6 amended: in a build with assertions, with no qualifying function each
\* of the three calls ends in the assertion failure and the metadata is
\* left alone; in a build without assertions getEntryPoint returns the null
\* reference and what the two accessors do with it is undefined.
C6_FatalWithAssertions ==
    [][(Calls /\ ~HasEntry(functions))
        => IF assertsEnabled
           THEN call'.status = "aborted" /\ ~call'.ub /\ functions' = functions
           ELSE /\ IsGetEntryPoint(call') => (Returned(call') /\ call'.func = 0)
                /\ (IsGetStage(call') \/ IsSetStage(call')) => call'.ub]_vars

\* the unit holds a function with a body, which is not externally linked
C6_Witness ==
    /\ assertsEnabled
    /\ IsSetStage(call) /\ call.status = "aborted"
    /\ Len(functions) >= 1
    /\ \E i \in 1..Len(functions) : functions[i].hasBody

----------------------------------------------------------------------------
(***************************************************************************)
(* Properties of appendZeroIndexToMatchTypes, checked under SpecAppend.    *)
(* The single-level first-element unwrap is restated from the claims.     *)
(***************************************************************************)
IsAppend(c) == c.op = "appendZeroIndexToMatchTypes"

NoType == [kind |-> "none", elems |-> << >>, num |-> 0]

\* struct -> type of member 0, array -> element type, vector -> element type
FirstElement(ty) ==
    IF ty.kind \in {"struct", "array", "vector"} THEN ty.elems[1] ELSE NoType

RECURSIVE UnwrapSteps(_, _)
UnwrapSteps(ty, n) == IF n = 0 THEN ty ELSE UnwrapSteps(FirstElement(ty), n - 1)

\* a type of the model nests at most MaxDepth levels
StepCounts == 0..MaxDepth

ReachableByUnwrap(source, target) == \E n \in StepCounts : UnwrapSteps(source, n) = target

\* the number of steps to the first cursor type equal to the target
StepsToFirstMatch(source, target) ==
    CHOOSE n \in StepCounts :
        /\ UnwrapSteps(source, n) = target
        /\ \A m \in 0..(n - 1) : UnwrapSteps(source, m) # target

Appended == Len(indexOperands) - Len(entryOperands)

\* C4: when typeToMatch is reachable from packType by N first-element
\* unwrap steps the call does not fail, the cursor after k iterations is
\* packType unwrapped k times with k <= N, and the call returns with N
\* entries appended: none when the two types are equal.
C4_LengthGrowsByUnwrapLevels ==
    (IsAppend(call) /\ ReachableByUnwrap(packType, typeToMatch))
        => LET N == StepsToFirstMatch(packType, typeToMatch)
           IN  /\ call.status \in {"running", "returned"}
               /\ ~call.ub
               /\ Appended <= N
               /\ unpackType = UnwrapSteps(packType, Appended)
               /\ call.status = "returned" => Appended = N
               /\ (call.status = "returned" /\ packType = typeToMatch)
                     => indexOperands = entryOperands

\* a struct whose first member is an array of 4 of the target, an empty list
C4_Witness ==
    /\ IsAppend(call) /\ Returned(call)
    /\ typeToMatch = FloatTy
    /\ packType = StructTy(<< ArrayTy(FloatTy, 4), FloatTy >>)
    /\ entryOperands = << >>
    /\ Len(indexOperands) = 2

\* the cursor is a type with no unwrap step and is not the target
Stuck == InAppend /\ unpackType # typeToMatch
             /\ unpackType.kind \notin {"struct", "array", "vector"}

\* C7 as stated: from such a cursor the routine ends in the fatal state.
C7_AlwaysFatal ==
    [][(Stuck /\ call' # call) => call'.status = "aborted"]_vars

\* C7 amended: in a build with assertions the routine ends in the fatal
\* state from such a cursor, the zero of that iteration already appended,
\* and does not return or unwrap further; in a build without assertions
\* its behaviour from there is undefined.
C7_FatalWithAssertions ==
    [][(Stuck /\ call' # call)
        => IF assertsEnabled
           THEN /\ call'.status = "aborted" /\ ~call'.ub
                /\ unpackType' = unpackType
                /\ Len(indexOperands') = Len(indexOperands) + 1
           ELSE call'.ub]_vars

C7_Witness ==
    /\ assertsEnabled
    /\ IsAppend(call) /\ call.status = "aborted"
    /\ packType = ArrayTy(Int32Ty, 4)
    /\ typeToMatch = FloatTy
    /\ unpackType = Int32Ty

\* C8: the list the caller passed is a prefix of the list at every point of
\* the call, each entry after it is the 32-bit constant zero, and nothing
\* but the list changes: the module is as it was.
C8_OnlyAppendsZeros ==
    (IsAppend(call) /\ ~call.ub)
        => /\ Len(indexOperands) >= Len(entryOperands)
           /\ SubSeq(indexOperands, 1, Len(entryOperands)) = entryOperands
           /\ \A i \in (Len(entryOperands) + 1)..Len(indexOperands) :
                 indexOperands[i] = [type |-> "i32", value |-> 0]
           /\ functions = << >>
           /\ prev = NoCall

\* a list that held a non-zero index and a zero got two more entries
C8_Witness ==
    /\ IsAppend(call) /\ Returned(call)
    /\ entryOperands = << getInt32(3), getInt32(0) >>
    /\ Len(indexOperands) = 4

====
